---- MODULE Spec2Model ----
(***************************************************************************)
(* A model of touchHLE's printf/scanf family, src/libc/stdio/printf.rs:    *)
(* the directive parser and formatter printf_inner, the sinks that deliver *)
(* its result (snprintf, vsnprintf, sprintf, vsprintf, printf, vprintf,    *)
(* fprintf) and the scan engine sscanf.                                    *)
(*                                                                         *)
(* Bytes are their ASCII codes.  A guest string is a memory image: its     *)
(* bytes, the NUL terminator, and the bytes that happen to follow it in    *)
(* guest memory; an address past the image is unmapped.  One action is one *)
(* iteration of a function's main loop, or one sink's delivery.            *)
(*                                                                         *)
(* A variadic argument is read exactly once, when it is pulled, so its     *)
(* value is drawn at the pull.  A sink's own parameters (dest, n, stream)  *)
(* are first used after printf_inner has returned and are drawn there.     *)
(***************************************************************************)
EXTENDS Integers, Sequences, FiniteSets, TLC

VARIABLES
    call,             \* "printf" (printf_inner and a sink) or "sscanf"
    pc,               \* "loop" | "returned" (printf_inner gave res) | "done" | "abort"
    status,           \* how the call halted: "" while it runs, else the reason
    NS_LOG,           \* printf_inner's dialect parameter
    format,           \* memory image of the format string
    format_char_idx,  \* index of the next format byte
    res,              \* printf_inner: the output bytes so far
    pulls,            \* history: the arguments pulled, in order
    dirs,             \* history: the directives processed, in order
    hi_format,        \* history: highest format index read so far (-1: none)
    n,                \* vsnprintf: the declared size (-1 before delivery)
    dest,             \* bytes written to the destination buffer, from index 0
    stream,           \* bytes written to the host stream
    ret,              \* the call's return value (NoRet before it returns)
    overflow_checks,  \* the build: "on" panics on integer overflow, "off" wraps;
                      \* "unobserved" until the call first overflows
    src,              \* sscanf: memory image of the source string
    src_ptr,          \* sscanf: offset of the source cursor from src
    matched_args,     \* sscanf: conversions completed
    hi_src            \* history: highest source offset read so far (-1: none)

vars == <<call, pc, status, NS_LOG, format, format_char_idx, res, pulls, dirs,
          hi_format, n, dest, stream, ret, overflow_checks, src,
          src_ptr, matched_args, hi_src>>

(***************************************************************************)
(* Bytes the code names.                                                   *)
(***************************************************************************)
NUL == 0
SPACE == 32
PCT == 37
STAR == 42
MINUS == 45
DOT == 46
ZERO == 48
NINE == 57
AT == 64
UPPER_C == 67
UPPER_X == 88
LBRACKET == 91
RBRACKET == 93
CARET == 94
LOWER_C == 99
LOWER_D == 100
LOWER_F == 102
LOWER_H == 104
LOWER_I == 105
LOWER_L == 108
LOWER_O == 111
LOWER_P == 112
LOWER_S == 115
LOWER_U == 117
LOWER_X == 120
STDOUT_FILENO == 1
STDERR_FILENO == 2

Pow2(k) == 2 ^ k

INTEGER_SPECIFIERS == {LOWER_D, LOWER_I, LOWER_O, LOWER_U, LOWER_X, UPPER_X}
FLOAT_SPECIFIERS == {LOWER_F}

\* Option::None for precision and length_modifier.
None == -1
\* What a read of an unmapped guest address gives: no byte (the read panics).
Unmapped == -1
\* ret before the call returns: a value no call returns.
NoRet == 0 - Pow2(30)

(***************************************************************************)
(* Bounds of the model.                                                    *)
(***************************************************************************)
MaxPrefix == 1        \* literal bytes before the first printf directive
MaxSuffix == 1        \* items after the first printf directive
MaxN == 3             \* largest declared size given to vsnprintf
MaxScanItems == 2     \* items of a sscanf format
MaxSrcTokens == 3     \* tokens of a sscanf source

Max(a, b) == IF a >= b THEN a ELSE b
Min(a, b) == IF a <= b THEN a ELSE b

RECURSIVE Repeat(_, _)
Repeat(b, k) == IF k <= 0 THEN <<>> ELSE <<b>> \o Repeat(b, k - 1)

RECURSIVE Flatten(_)
Flatten(ss) == IF ss = <<>> THEN <<>> ELSE Head(ss) \o Flatten(Tail(ss))

SeqsUpTo(S, k) == UNION {[1..m -> S] : m \in 0..k}

IsDigit(c) == c >= ZERO /\ c <= NINE

(***************************************************************************)
(* Guest memory.                                                           *)
(***************************************************************************)
\* mem.read(base + off): the byte of the image, or Unmapped past it.
Read(mem, off) == IF off >= 0 /\ off < Len(mem) THEN mem[off + 1] ELSE Unmapped

\* The accessor every sink hands to printf_inner: |mem, idx| mem.read(format + idx).
get_format_char(fmt, idx) == Read(fmt, idx)

\* Offset of the terminator of the string an image holds.
TermIdx(mem) == CHOOSE i \in 0..(Len(mem) - 1) :
                    /\ mem[i + 1] = NUL
                    /\ \A j \in 0..(i - 1) : mem[j + 1] # NUL

\* A 32-bit value (an argument slot, a u32) is held as the i32 with the same
\* bits: a u32 of 2^31 or more is held as the negative i32 that is 2^32 less.
ToI32(slot) == slot

\* a < b for a u32 a held as its bits and a host length b.
U32Less(bits, b) == bits >= 0 /\ bits < b

(***************************************************************************)
(* Rust's formatting of integers, as printf_inner uses it.                 *)
(***************************************************************************)
RECURSIVE DecDigits(_)
DecDigits(m) == IF m < 10 THEN <<ZERO + m>> ELSE Append(DecDigits(m \div 10), ZERO + (m % 10))

HexDigit(v, upper) == IF v < 10 THEN ZERO + v ELSE (IF upper THEN 55 ELSE 87) + v

RECURSIVE HexDigits(_, _)
HexDigits(m, upper) ==
    IF m < 16 THEN <<HexDigit(m, upper)>>
    ELSE Append(HexDigits(m \div 16, upper), HexDigit(m % 16, upper))

Abs(i) == IF i < 0 THEN 0 - i ELSE i
Sign(i) == IF i < 0 THEN <<MINUS>> ELSE <<>>

\* The decimal digits of |i| for an i32 i (|i| itself may not fit an i32).
MagDigits(i) ==
    IF i >= 0 THEN DecDigits(i)
    ELSE IF i > 0 - 10 THEN <<ZERO - i>>
    ELSE LET r == (10 - (i % 10)) % 10
         IN  Append(DecDigits(0 - ((i + r) \div 10)), ZERO + r)

\* The decimal digits of the u32 with these bits: 2^32 = 42949 * 10^5 + 67296.
U32Digits(bits) ==
    IF bits >= 0 THEN DecDigits(bits)
    ELSE LET low == 67296 + (bits % 100000)
             high == 42949 + (bits \div 100000) + (low \div 100000)
             tail == DecDigits(low % 100000)
         IN  DecDigits(high) \o Repeat(ZERO, 5 - Len(tail)) \o tail

\* The hexadecimal digits of the u32 with these bits.
U32HexDigits(bits, upper) ==
    IF bits >= 0 THEN HexDigits(bits, upper)
    ELSE LET tail == HexDigits(bits % 65536, upper)
         IN  HexDigits((bits \div 65536) + 65536, upper)
                 \o Repeat(ZERO, 4 - Len(tail)) \o tail

\* The i64 a d/i/u directive formats, as its sign and the digits of its size.
\* format!("{}", int)
FmtDisplay(neg, digits) == (IF neg THEN <<MINUS>> ELSE <<>>) \o digits

\* format!("{:01$}", int, width): the `0` flag is sign-aware, the zeros go
\* between the sign and the digits and the width counts the sign.
FmtZeroWidth(neg, digits, width) ==
    LET sign == IF neg THEN <<MINUS>> ELSE <<>>
    IN  sign \o Repeat(ZERO, width - Len(sign) - Len(digits)) \o digits

\* write!("{:F>1$}", text, width): right-align text, filling with byte F.
FmtFillRight(text, fill, width) == Repeat(fill, width - Len(text)) \o text

\* A float argument is held as its count of halves (3 is 1.5, -4 is -2.0).
\* format!("{:.1$}", float, prec): ties round to even.
FmtFloat(halves, prec) ==
    LET whole == Abs(halves) \div 2
        half == Abs(halves) % 2 = 1
        rounded == IF half /\ whole % 2 = 1 THEN whole + 1 ELSE whole
    IN  IF prec = 0 THEN Sign(halves) \o DecDigits(rounded)
        ELSE Sign(halves) \o DecDigits(whole) \o <<DOT, IF half THEN ZERO + 5 ELSE ZERO>>
                 \o Repeat(ZERO, prec - 1)

\* write!("{:01$.2$}", float, width, prec): sign-aware zero fill.
FmtFloatZeroWidth(halves, width, prec) ==
    LET text == FmtFloat(Abs(halves), prec)
    IN  Sign(halves) \o Repeat(ZERO, width - Len(Sign(halves)) - Len(text)) \o text

\* write!(&mut res, "{}", c) for a char: its UTF-8 encoding.
EncodeUtf8(c) ==
    IF c < 128 THEN <<c>>
    ELSE IF c < 2048 THEN <<192 + (c \div 64), 128 + (c % 64)>>
    ELSE <<224 + (c \div 4096), 128 + ((c \div 64) % 64), 128 + (c % 64)>>

\* char::from_u32(c) is None for a surrogate code unit.
IsSurrogate(c) == c >= 55296 /\ c <= 57343

(***************************************************************************)
(* printf_inner: the stages of one directive.  Each stage reads the format *)
(* at idx and gives what it parsed and the index it leaves.                *)
(***************************************************************************)
\* `while let c @ b'0'..=b'9' = get_format_char(idx)`: value and end of a digit run.
RECURSIVE DigitRun(_, _, _)
DigitRun(fmt, idx, acc) ==
    LET c == get_format_char(fmt, idx)
    IN  IF IsDigit(c) THEN DigitRun(fmt, idx + 1, acc * 10 + (c - ZERO))
        ELSE [val |-> acc, idx |-> idx]

\* Mutant: the index moves on whether or not the byte was the flag.
PadCharStageAlwaysAdvances(fmt, idx) ==
    [pad_char |-> IF get_format_char(fmt, idx) = ZERO THEN ZERO ELSE SPACE, idx |-> idx + 1]

PadCharStage(fmt, idx) ==
    IF get_format_char(fmt, idx) = ZERO
    THEN [pad_char |-> ZERO, idx |-> idx + 1]
    ELSE [pad_char |-> SPACE, idx |-> idx]

\* star: the width is pulled from the arguments; else the literal digit run.
PadWidthStage(fmt, idx) ==
    IF get_format_char(fmt, idx) = STAR
    THEN [star |-> TRUE, pad_width |-> 0, idx |-> idx + 1]
    ELSE LET run == DigitRun(fmt, idx, 0)
         IN  [star |-> FALSE, pad_width |-> run.val, idx |-> run.idx]

PrecisionStage(fmt, idx) ==
    IF get_format_char(fmt, idx) = DOT
    THEN LET run == DigitRun(fmt, idx + 1, 0)
         IN  [precision |-> run.val, idx |-> run.idx]
    ELSE [precision |-> None, idx |-> idx]

LengthModifierStage(fmt, idx) ==
    IF get_format_char(fmt, idx) = LOWER_L
    THEN [length_modifier |-> LOWER_L, idx |-> idx + 1]
    ELSE [length_modifier |-> None, idx |-> idx]

\* The directive whose '%' is at index `at`: its fields, the index of its
\* specifier byte (the last index read) and the index after it.
ParseDirective(fmt, at) ==
    LET pc_ == PadCharStage(fmt, at + 1)
        pw == PadWidthStage(fmt, pc_.idx)
        pr == PrecisionStage(fmt, pw.idx)
        lm == LengthModifierStage(fmt, pr.idx)
    IN  [at |-> at,
         pad_char |-> pc_.pad_char,
         star |-> pw.star,
         pad_width |-> pw.pad_width,
         precision |-> pr.precision,
         length_modifier |-> lm.length_modifier,
         specifier |-> get_format_char(fmt, lm.idx),
         specifier_idx |-> lm.idx,
         next |-> lm.idx + 1]

(***************************************************************************)
(* printf_inner: the conversions.  A conversion gives its outcome ("ok" or *)
(* the panic), the bytes it appends, the types it pulled and the value.    *)
(***************************************************************************)
Ok(out, type, value) == [status |-> "ok", out |-> out, pulled |-> <<type>>, value |-> value]
Panic(why) == [status |-> why, out |-> <<>>, pulled |-> <<>>, value |-> 0]
PanicAfterPull(why, type, value) ==
    [status |-> why, out |-> <<>>, pulled |-> <<type>>, value |-> value]

NullText == <<40, 110, 117, 108, 108, 41>>    \* "(null)"

\* The guest strings %s arguments point to, by address (0 is the null pointer).
cstr_at(ptr) == IF ptr = 4096 THEN <<104, 105>> ELSE <<>>

\* [object description] as host text, by object reference.
description(object) == IF object = 8192 THEN <<79, 98, 106>> ELSE <<>>

\* format!("{:?}", ptr) of a guest pointer.
PtrDebug(ptr) == IF ptr = 0 THEN NullText ELSE <<ZERO, LOWER_X>> \o U32HexDigits(ptr, FALSE)

NoPadding(d, pad_width) == d.pad_char = SPACE /\ pad_width = 0

ConvertChar(d, pad_width, v) ==
    IF d.length_modifier # None THEN Panic("assert")
    ELSE IF ~NoPadding(d, pad_width) THEN PanicAfterPull("assert", "u8", v)
    ELSE Ok(<<v>>, "u8", v)

ConvertUnichar(d, pad_width, v) ==
    IF d.length_modifier # None THEN Panic("assert")
    ELSE IF ~NoPadding(d, pad_width) THEN PanicAfterPull("assert", "unichar", v)
    ELSE IF IsSurrogate(v) THEN PanicAfterPull("unwrap", "unichar", v)
    ELSE Ok(EncodeUtf8(v), "unichar", v)

ConvertString(d, pad_width, v) ==
    IF d.length_modifier # None THEN Panic("assert")
    ELSE IF ~NoPadding(d, pad_width) THEN PanicAfterPull("assert", "ptr", v)
    ELSE Ok(IF v # 0 THEN cstr_at(v) ELSE NullText, "ptr", v)

\* precision.is_some_and(|value| value > 0)
int_with_precision(neg, digits, precision) ==
    IF precision # None /\ precision > 0 THEN FmtZeroWidth(neg, digits, precision)
    ELSE FmtDisplay(neg, digits)

\* The pad byte of an integer field: '0' only without a precision.
IntFill(d) == IF d.pad_char = ZERO /\ d.precision = None THEN ZERO ELSE SPACE

ConvertInt(d, pad_width, v) ==
    LET neg == d.specifier # LOWER_U /\ ToI32(v) < 0
        digits == IF d.specifier = LOWER_U THEN U32Digits(v) ELSE MagDigits(ToI32(v))
        text == int_with_precision(neg, digits, d.precision)
    IN  Ok(IF pad_width > 0 THEN FmtFillRight(text, IntFill(d), pad_width) ELSE text,
           IF d.specifier = LOWER_U THEN "u32" ELSE "i32", v)

ConvertFloat(d, pad_width, v) ==
    LET precision_value == IF d.precision = None THEN 6 ELSE d.precision
    IN  IF d.length_modifier # None THEN Panic("assert")
        ELSE Ok(IF pad_width > 0
                THEN IF d.pad_char = ZERO
                     THEN FmtFloatZeroWidth(v, pad_width, precision_value)
                     ELSE FmtFillRight(FmtFloat(v, precision_value), SPACE, pad_width)
                ELSE FmtFloat(v, precision_value),
                "f64", v)

ConvertObject(d, pad_width, v) ==
    IF d.length_modifier # None THEN Panic("assert")
    ELSE Ok(description(v), "id", v)

ConvertHex(d, pad_width, v) == Ok(U32HexDigits(v, d.specifier = UPPER_X), "u32", v)

ConvertPointer(d, pad_width, v) ==
    IF d.length_modifier # None THEN Panic("assert")
    ELSE Ok(PtrDebug(v), "void_ptr", v)

\* if precision.is_some() { assert!(INTEGER_SPECIFIERS.contains(..) || FLOAT_SPECIFIERS.contains(..)) }
PrecisionAllowed(d) ==
    d.precision = None \/ d.specifier \in (INTEGER_SPECIFIERS \cup FLOAT_SPECIFIERS)

\* `match specifier { ... }`
MatchSpecifier(ns_log, d, pad_width, v) ==
    CASE d.specifier = LOWER_C -> ConvertChar(d, pad_width, v)
      [] d.specifier = UPPER_C -> ConvertUnichar(d, pad_width, v)
      [] d.specifier = LOWER_S -> ConvertString(d, pad_width, v)
      [] d.specifier \in {LOWER_D, LOWER_I, LOWER_U} -> ConvertInt(d, pad_width, v)
      [] d.specifier = LOWER_F -> ConvertFloat(d, pad_width, v)
      [] d.specifier = AT /\ ns_log -> ConvertObject(d, pad_width, v)
      [] d.specifier \in {LOWER_X, UPPER_X} -> ConvertHex(d, pad_width, v)
      [] d.specifier = LOWER_P -> ConvertPointer(d, pad_width, v)
      [] OTHER -> Panic("unimplemented")

\* Mutant: the precision check comes before the `%` case.
ConversionChecksPrecisionFirst(ns_log, d, pad_width, v) ==
    IF d.specifier = NUL \/ d.specifier = Unmapped THEN Panic("assert")
    ELSE IF ~PrecisionAllowed(d) THEN Panic("assert")
    ELSE IF d.specifier = PCT THEN [status |-> "ok", out |-> <<PCT>>, pulled |-> <<>>, value |-> 0]
    ELSE MatchSpecifier(ns_log, d, pad_width, v)

\* Everything after the length modifier: the specifier checks and the conversion.
Conversion(ns_log, d, pad_width, v) ==
    IF d.specifier = NUL \/ d.specifier = Unmapped THEN Panic("assert")
    ELSE IF d.specifier = PCT THEN [status |-> "ok", out |-> <<PCT>>, pulled |-> <<>>, value |-> 0]
    ELSE IF ~PrecisionAllowed(d) THEN Panic("assert")
    ELSE MatchSpecifier(ns_log, d, pad_width, v)

\* Mutant: no assertion on a pulled width.
StarWidthUnchecked(w) == TRUE

\* assert!(pad_width >= 0) on a pulled width.
StarWidthOk(w) == ToI32(w) >= 0

\* One whole directive, given the slot w a `*` would pull and the slot v its
\* conversion would pull.
Directive(ns_log, d, w, v) ==
    IF d.star /\ ~StarWidthOk(w)
    THEN [status |-> "assert", out |-> <<>>, pulled |-> <<"i32">>, value |-> 0,
          pad_width |-> ToI32(w)]
    ELSE LET pad_width == IF d.star THEN ToI32(w) ELSE d.pad_width
             c == Conversion(ns_log, d, pad_width, v)
         IN  [status |-> c.status, out |-> c.out,
              pulled |-> (IF d.star THEN <<"i32">> ELSE <<>>) \o c.pulled,
              value |-> c.value, pad_width |-> pad_width]

(***************************************************************************)
(* The arguments a call may hold, by the type a directive decodes.         *)
(***************************************************************************)
StarWidths == {0, 5, 0 - 1}
IntSlots == {5, 42, 123456, 0 - 5}
ArgValues(specifier) ==
    CASE specifier = LOWER_C -> {97}
      [] specifier = UPPER_C -> {65, 233, 8364, 55296}
      [] specifier = LOWER_S -> {0, 4096}
      [] specifier \in {LOWER_D, LOWER_I, LOWER_U, LOWER_X, UPPER_X} -> IntSlots
      [] specifier = LOWER_F -> {3, 0 - 4}
      [] specifier = AT -> {8192}
      [] specifier = LOWER_P -> {0, 4096}
      [] OTHER -> {0}

(***************************************************************************)
(* The format strings a printf call may be given: literal bytes, one       *)
(* directive of every shape (any part may be absent and the string may end *)
(* inside it), then further items.                                         *)
(***************************************************************************)
Letters == {97}    \* 'a'
PrintfFlags == {<<>>, <<ZERO>>}
PrintfWidths == {<<>>, <<STAR>>, <<ZERO + 5>>}
PrintfPrecisions == {<<>>, <<DOT>>, <<DOT, ZERO + 3>>}
PrintfLengths == {<<>>, <<LOWER_L>>}
PrintfSpecifiers ==
    {<<>>} \cup {<<b>> : b \in {PCT, LOWER_C, UPPER_C, LOWER_S, LOWER_D, LOWER_I, LOWER_U,
                               LOWER_F, AT, LOWER_X, UPPER_X, LOWER_P, LOWER_O}}
PrintfDirectives ==
    {<<PCT>> \o f \o w \o p \o l \o s :
        f \in PrintfFlags, w \in PrintfWidths, p \in PrintfPrecisions,
        l \in PrintfLengths, s \in PrintfSpecifiers}
PrintfSuffixItems ==
    {<<97>>, <<PCT, LOWER_S>>, <<PCT, LOWER_C>>, <<PCT, PCT>>}
PrintfFormats ==
    {p \o d \o Flatten(s) :
        p \in SeqsUpTo(Letters, MaxPrefix),
        d \in PrintfDirectives \cup {<<>>},
        s \in SeqsUpTo(PrintfSuffixItems, MaxSuffix)}

NoStream == [fd |-> 0, bytes |-> <<>>]

InitPrintf ==
    /\ call = "printf"
    /\ pc = "loop"
    /\ status = ""
    /\ NS_LOG \in BOOLEAN
    /\ format \in {f \o <<NUL>> : f \in PrintfFormats}
    /\ format_char_idx = 0
    /\ res = <<>>
    /\ pulls = <<>>
    /\ dirs = <<>>
    /\ hi_format = -1
    /\ n = -1
    /\ dest = <<>>
    /\ stream = NoStream
    /\ ret = NoRet
    /\ overflow_checks = "unobserved"
    /\ src = <<NUL>>
    /\ src_ptr = 0
    /\ matched_args = 0
    /\ hi_src = -1

scanVars == <<src, src_ptr, matched_args, hi_src>>
sinkVars == <<n, dest, stream, ret>>

(***************************************************************************)
(* printf_inner's loop, one iteration per action.                          *)
(***************************************************************************)
InPrintfLoop == call = "printf" /\ pc = "loop"

\* `if c == b'\0' { break; }`, then the trace and `res` is returned.
PrintfTerminator ==
    /\ InPrintfLoop
    /\ get_format_char(format, format_char_idx) = NUL
    /\ pc' = "returned"
    /\ format_char_idx' = format_char_idx + 1
    /\ hi_format' = Max(hi_format, format_char_idx)
    /\ UNCHANGED <<call, status, NS_LOG, format, res, pulls, dirs, overflow_checks>>
    /\ UNCHANGED sinkVars
    /\ UNCHANGED scanVars

\* `if c != b'%' { res.push(c); continue; }`; a read of an unmapped address panics.
PrintfLiteral ==
    /\ InPrintfLoop
    /\ LET c == get_format_char(format, format_char_idx)
       IN  /\ c \notin {NUL, PCT}
           /\ IF c = Unmapped
              THEN pc' = "abort" /\ status' = "fault" /\ res' = res
              ELSE pc' = pc /\ status' = status /\ res' = Append(res, c)
    /\ format_char_idx' = format_char_idx + 1
    /\ hi_format' = Max(hi_format, format_char_idx)
    /\ UNCHANGED <<call, NS_LOG, format, pulls, dirs, overflow_checks>>
    /\ UNCHANGED sinkVars
    /\ UNCHANGED scanVars

\* The history entry of a pull: the directive it is for, its role and its type.
PullEntries(d, pulled) ==
    [k \in 1..Len(pulled) |->
        [at |-> d.at,
         role |-> IF d.star /\ k = 1 THEN "width" ELSE "value",
         type |-> pulled[k]]]

\* One directive: parsed, its arguments pulled, its bytes appended, or the panic.
PrintfDirective ==
    /\ InPrintfLoop
    /\ get_format_char(format, format_char_idx) = PCT
    /\ LET d == ParseDirective(format, format_char_idx)
       IN  \E w \in (IF d.star THEN StarWidths ELSE {0}), v \in ArgValues(d.specifier) :
             LET o == Directive(NS_LOG, d, w, v)
             IN  /\ pc' = IF o.status = "ok" THEN "loop" ELSE "abort"
                 /\ status' = IF o.status = "ok" THEN "" ELSE o.status
                 /\ res' = res \o o.out
                 /\ pulls' = pulls \o PullEntries(d, o.pulled)
                 /\ dirs' = Append(dirs,
                        [at |-> d.at, pad_char |-> d.pad_char, star |-> d.star,
                         pad_width |-> o.pad_width, precision |-> d.precision,
                         length_modifier |-> d.length_modifier,
                         specifier |-> d.specifier, status |-> o.status,
                         out |-> o.out, value |-> o.value,
                         pulls_before |-> Len(pulls), pulled |-> Len(o.pulled)])
                 /\ format_char_idx' = d.next
                 /\ hi_format' = Max(hi_format, d.specifier_idx)
    /\ UNCHANGED <<call, NS_LOG, format, overflow_checks>>
    /\ UNCHANGED sinkVars
    /\ UNCHANGED scanVars

(***************************************************************************)
(* The sinks.  All seven call printf_inner::<false, _>.                    *)
(***************************************************************************)
Returned == call = "printf" /\ pc = "returned"

\* The builds an overflow may meet: the one already observed, else either.
Builds == IF overflow_checks = "unobserved" THEN {"on", "off"} ELSE {overflow_checks}

\* `(n - 1)` on a u32: panics under overflow checks, else wraps to u32::MAX.
SizeMinusOne(size, checks) ==
    IF size >= 1 THEN [panic |-> FALSE, val |-> size - 1]
    ELSE IF checks = "on" THEN [panic |-> TRUE, val |-> 0]
    ELSE [panic |-> FALSE, val |-> 0 - 1]

\* `if ((n - 1) as usize) < res.len() { &res[..(n - 1)] } else { &res[..] }`
middle(r, limit) == IF U32Less(limit, Len(r)) THEN SubSeq(r, 1, limit) ELSE r

\* `dest_slice[i] = byte` for each byte in turn, in a window of `size` bytes:
\* the bytes that land, and whether an index past the window panicked.
WriteSlice(bytes, size) ==
    [written |-> SubSeq(bytes, 1, Min(Len(bytes), size)), panic |-> Len(bytes) > size]

vsnprintf(r, size, checks) ==
    LET m == SizeMinusOne(size, checks)
        w == WriteSlice(middle(r, m.val) \o <<NUL>>, size)
    IN  IF m.panic THEN [status |-> "overflow", dest |-> <<>>, ret |-> NoRet]
        ELSE IF w.panic THEN [status |-> "index", dest |-> w.written, ret |-> NoRet]
        ELSE [status |-> "", dest |-> w.written, ret |-> Len(r)]

\* vsnprintf, and snprintf, which is vsnprintf on args.start().
Vsnprintf ==
    /\ Returned
    /\ ~NS_LOG
    /\ \E size \in 0..MaxN :
       \E checks \in (IF size = 0 THEN Builds ELSE {overflow_checks}) :
         LET o == vsnprintf(res, size, checks)
         IN  /\ n' = size
             /\ dest' = o.dest
             /\ ret' = o.ret
             /\ status' = o.status
             /\ pc' = IF o.status = "" THEN "done" ELSE "abort"
             /\ overflow_checks' = checks
    /\ UNCHANGED <<call, NS_LOG, format, format_char_idx, res, pulls, dirs, hi_format,
                   stream>>
    /\ UNCHANGED scanVars

\* sprintf and vsprintf: a window of res.len() + 1 bytes, res and a terminator.
Vsprintf ==
    /\ Returned
    /\ ~NS_LOG
    /\ dest' = WriteSlice(res \o <<NUL>>, Len(res) + 1).written
    /\ ret' = Len(res)
    /\ pc' = "done"
    /\ UNCHANGED <<call, status, NS_LOG, format, format_char_idx, res, pulls, dirs,
                   hi_format, n, stream, overflow_checks>>
    /\ UNCHANGED scanVars

\* printf and vprintf to the host's standard output; fprintf by the stream's
\* descriptor, any descriptor but the two standard ones being unimplemented.
Fprintf ==
    /\ Returned
    /\ ~NS_LOG
    /\ \E fd \in {STDOUT_FILENO, STDERR_FILENO, 3} :
         IF fd \in {STDOUT_FILENO, STDERR_FILENO}
         THEN /\ stream' = [fd |-> fd, bytes |-> res]
              /\ ret' = Len(res)
              /\ pc' = "done"
              /\ status' = status
         ELSE /\ stream' = [fd |-> fd, bytes |-> <<>>]
              /\ ret' = ret
              /\ pc' = "abort"
              /\ status' = "unimplemented"
    /\ UNCHANGED <<call, NS_LOG, format, format_char_idx, res, pulls, dirs,
                   hi_format, n, dest, overflow_checks>>
    /\ UNCHANGED scanVars

\* A caller of printf_inner::<true, _> (the NSLog family) takes res as it is.
NsLogCaller ==
    /\ Returned
    /\ NS_LOG
    /\ pc' = "done"
    /\ ret' = Len(res)
    /\ UNCHANGED <<call, status, NS_LOG, format, format_char_idx, res, pulls, dirs,
                   hi_format, n, dest, stream, overflow_checks>>
    /\ UNCHANGED scanVars

NextPrintf ==
    \/ PrintfTerminator
    \/ PrintfLiteral
    \/ PrintfDirective
    \/ Vsnprintf
    \/ Vsprintf
    \/ Fprintf
    \/ NsLogCaller

SpecPrintf == InitPrintf /\ [][NextPrintf]_vars

(***************************************************************************)
(* sscanf: the conversions.                                                *)
(***************************************************************************)
\* `val * 10 + digit` in an i16 or an i32: the wrapped result and whether the
\* exact one left the type.  The 32-bit case goes by 16-bit halves.
MulAdd(val, digit, width) ==
    IF width = 16
    THEN LET exact == val * 10 + digit
             wrapped == ((exact + 32768) % 65536) - 32768
         IN  [val |-> wrapped, overflow |-> exact # wrapped]
    ELSE LET low == (val % 65536) * 10 + digit
             high == (val \div 65536) * 10 + (low \div 65536)
             high16 == ((high + 32768) % 65536) - 32768
         IN  [val |-> high16 * 65536 + (low % 65536), overflow |-> high # high16]

\* `while let c @ b'0'..=b'9' = env.mem.read(src_ptr) { val = val * 10 + ..; src_ptr += 1; }`
\* gives the value, the cursor it leaves (the last offset read), whether it
\* wrapped, and the panic if it met one.
RECURSIVE ScanDigits(_, _, _, _, _, _)
ScanDigits(mem, ptr, val, width, checks, wrapped) ==
    LET c == Read(mem, ptr)
    IN  IF c = Unmapped
        THEN [status |-> "fault", val |-> val, ptr |-> ptr, wrapped |-> wrapped]
        ELSE IF ~IsDigit(c)
        THEN [status |-> "ok", val |-> val, ptr |-> ptr, wrapped |-> wrapped]
        ELSE LET m == MulAdd(val, c - ZERO, width)
             IN  IF m.overflow /\ checks = "on"
                 THEN [status |-> "overflow", val |-> val, ptr |-> ptr, wrapped |-> TRUE]
                 ELSE ScanDigits(mem, ptr + 1, m.val, width, checks, wrapped \/ m.overflow)

\* `while c != b']' { set.insert(c); c = env.mem.read(format + idx); idx += 1; }`
\* from the byte at idx: the set, the index after the ']' and the last index read.
RECURSIVE BuildSet(_, _, _)
BuildSet(fmt, idx, set) ==
    LET c == Read(fmt, idx)
    IN  IF c = Unmapped THEN [status |-> "fault", set |-> set, idx |-> idx + 1, hi |-> idx]
        ELSE IF c = RBRACKET THEN [status |-> "ok", set |-> set, idx |-> idx + 1, hi |-> idx]
        ELSE BuildSet(fmt, idx + 1, set \cup {c})

\* `while !set.contains(&cc) { env.mem.write(dst_ptr, cc); dst_ptr += 1; cc = env.mem.read(src_ptr); src_ptr += 1; }`
\* from the byte at ptr: the bytes written, the last offset read and the cursor
\* the loop leaves, one past the byte that ended it.
RECURSIVE CopyWhile(_, _, _, _)
CopyWhile(mem, ptr, set, out) ==
    LET cc == Read(mem, ptr)
    IN  IF cc = Unmapped THEN [status |-> "fault", out |-> out, hi |-> ptr, ptr |-> ptr]
        ELSE IF cc \in set THEN [status |-> "ok", out |-> out, hi |-> ptr, ptr |-> ptr + 1]
        ELSE CopyWhile(mem, ptr + 1, set, Append(out, cc))

\* Mutant: the cursor is left past the byte that ended the copy.
BacktrackForgotten(ptr) == ptr

\* `src_ptr -= 1`: "we need to backtrack one position".
Backtrack(ptr) == ptr - 1

\* The outcome of one conversion: its status, the cursors it leaves, what it
\* stored, the type of the destination it pulled (or none) and the highest
\* format index and source offset it read.
ScanOutcome(st, idx, ptr, val, bytes, pulled, hif, his, wrapped) ==
    [status |-> st, idx |-> idx, ptr |-> ptr, val |-> val, bytes |-> bytes,
     pulled |-> pulled, hi_format |-> hif, hi_src |-> his, wrapped |-> wrapped]

\* b'd' | b'i'
ScanInt(mem, ptr, specifier, length_modifier, idx, checks) ==
    LET width == IF length_modifier = LOWER_H THEN 16 ELSE 32
        run == ScanDigits(mem, ptr, 0, width, checks, FALSE)
        type == IF width = 16 THEN "ptr_i16" ELSE "ptr_i32"
    IN  IF specifier = LOWER_I /\ Read(mem, ptr) = Unmapped
        THEN ScanOutcome("fault", idx, ptr, 0, <<>>, <<>>, idx - 1, ptr, FALSE)
        ELSE IF specifier = LOWER_I /\ Read(mem, ptr) = ZERO
        THEN ScanOutcome("assert", idx, ptr, 0, <<>>, <<>>, idx - 1, ptr, FALSE)
        ELSE IF run.status # "ok"
        THEN ScanOutcome(run.status, idx, run.ptr, 0, <<>>, <<>>, idx - 1, run.ptr, run.wrapped)
        ELSE ScanOutcome("ok", idx, run.ptr, run.val, <<>>, <<type>>, idx - 1, run.ptr, run.wrapped)

\* b'[': idx is the index after the '['.
ScanSet(fmt, mem, ptr, length_modifier, idx) ==
    LET c == Read(fmt, idx)
        built == BuildSet(fmt, idx + 1, {})
        copy == CopyWhile(mem, ptr, built.set, <<>>)
    IN  IF length_modifier # None
        THEN ScanOutcome("assert", idx, ptr, 0, <<>>, <<>>, idx - 1, -1, FALSE)
        ELSE IF c = Unmapped
        THEN ScanOutcome("fault", idx + 1, ptr, 0, <<>>, <<>>, idx, -1, FALSE)
        ELSE IF c # CARET
        THEN ScanOutcome("assert", idx + 1, ptr, 0, <<>>, <<>>, idx, -1, FALSE)
        ELSE IF built.status # "ok"
        THEN ScanOutcome(built.status, built.idx, ptr, 0, <<>>, <<>>, built.hi, -1, FALSE)
        ELSE IF copy.status # "ok"
        THEN ScanOutcome(copy.status, built.idx, copy.ptr, 0, copy.out, <<"ptr_u8">>,
                         built.hi, copy.hi, FALSE)
        ELSE ScanOutcome("ok", built.idx, Backtrack(copy.ptr), 0, Append(copy.out, NUL),
                         <<"ptr_u8">>, built.hi, copy.hi, FALSE)

\* The optional `h`, the specifier and `match specifier { ... }`; at is the
\* index of the '%'.
ScanConversion(fmt, mem, ptr, at, checks) ==
    LET has_h == Read(fmt, at + 1) = LOWER_H
        length_modifier == IF has_h THEN LOWER_H ELSE None
        sidx == IF has_h THEN at + 2 ELSE at + 1
        specifier == Read(fmt, sidx)
        o == CASE specifier = Unmapped ->
                    ScanOutcome("fault", sidx + 1, ptr, 0, <<>>, <<>>, sidx, -1, FALSE)
               [] specifier \in {LOWER_D, LOWER_I} ->
                    ScanInt(mem, ptr, specifier, length_modifier, sidx + 1, checks)
               [] specifier = LBRACKET ->
                    ScanSet(fmt, mem, ptr, length_modifier, sidx + 1)
               [] OTHER ->
                    ScanOutcome("unimplemented", sidx + 1, ptr, 0, <<>>, <<>>, sidx, -1, FALSE)
    IN  o @@ [specifier |-> specifier, length_modifier |-> length_modifier]

(***************************************************************************)
(* The strings a sscanf call may be given.  A source is a run of tokens, a *)
(* format a run of items (literal bytes and directives, supported or not,  *)
(* closed or cut short); after each terminator guest memory goes on with a *)
(* tail of bytes before it is unmapped.                                    *)
(***************************************************************************)
SrcTokens == {<<97>>, <<SPACE>>, <<ZERO>>, <<ZERO + 4>>,
              <<ZERO + 4, ZERO + 4, ZERO + 4, ZERO + 4>>}
Sources == {Flatten(t) : t \in SeqsUpTo(SrcTokens, MaxSrcTokens)}
SrcTails == {<<>>, <<SPACE>>}
ScanItems ==
    {<<97>>, <<SPACE>>,
     <<PCT, LOWER_D>>, <<PCT, LOWER_H, LOWER_D>>, <<PCT, LOWER_I>>,
     <<PCT, LBRACKET, CARET, SPACE, RBRACKET>>,
     <<PCT, LBRACKET, CARET, SPACE>>,
     <<PCT, LBRACKET>>,
     <<PCT, LOWER_S>>,
     <<PCT>>}
ScanFormats == {Flatten(t) : t \in SeqsUpTo(ScanItems, MaxScanItems)}
FormatTails == {<<>>, <<RBRACKET>>}

InitScanf ==
    /\ call = "sscanf"
    /\ pc = "loop"
    /\ status = ""
    /\ NS_LOG = FALSE
    /\ format \in {f \o <<NUL>> \o t : f \in ScanFormats, t \in FormatTails}
    /\ format_char_idx = 0
    /\ res = <<>>
    /\ pulls = <<>>
    /\ dirs = <<>>
    /\ hi_format = -1
    /\ n = -1
    /\ dest = <<>>
    /\ stream = NoStream
    /\ ret = NoRet
    /\ overflow_checks = "unobserved"
    /\ src \in {t \o <<NUL>> \o u : t \in Sources, u \in SrcTails}
    /\ src_ptr = 0
    /\ matched_args = 0
    /\ hi_src = -1

printfVars == <<NS_LOG, res, n, dest, stream>>

(***************************************************************************)
(* sscanf's loop, one iteration per action.                                *)
(***************************************************************************)
InScanLoop == call = "sscanf" /\ pc = "loop"

\* Mutant: the count of conversions itself, as the native sscanf gives.
MismatchReturnsCount(matched) == matched

\* The value sscanf gives on a literal mismatch.
MismatchReturn(matched) == matched - 1

\* `if c == b'\0' { break; }` and `matched_args` is returned.
ScanTerminator ==
    /\ InScanLoop
    /\ Read(format, format_char_idx) = NUL
    /\ pc' = "done"
    /\ status' = "terminator"
    /\ ret' = matched_args
    /\ format_char_idx' = format_char_idx + 1
    /\ hi_format' = Max(hi_format, format_char_idx)
    /\ UNCHANGED <<call, format, pulls, dirs, overflow_checks, src, src_ptr,
                   matched_args, hi_src>>
    /\ UNCHANGED printfVars

\* `if c != b'%' { let cc = env.mem.read(src_ptr); if c != cc { return matched_args - 1; } src_ptr += 1; continue; }`
ScanLiteral ==
    /\ InScanLoop
    /\ LET c == Read(format, format_char_idx)
           cc == Read(src, src_ptr)
       IN  /\ c \notin {NUL, PCT}
           /\ IF c = Unmapped
              THEN /\ pc' = "abort" /\ status' = "fault"
                   /\ UNCHANGED <<ret, src_ptr, hi_src>>
              ELSE /\ hi_src' = Max(hi_src, src_ptr)
                   /\ IF cc = Unmapped
                      THEN pc' = "abort" /\ status' = "fault" /\ UNCHANGED <<ret, src_ptr>>
                      ELSE IF c # cc
                      THEN /\ pc' = "done" /\ status' = "mismatch"
                           /\ ret' = MismatchReturn(matched_args)
                           /\ src_ptr' = src_ptr
                      ELSE /\ src_ptr' = src_ptr + 1
                           /\ UNCHANGED <<pc, status, ret>>
    /\ format_char_idx' = format_char_idx + 1
    /\ hi_format' = Max(hi_format, format_char_idx)
    /\ UNCHANGED <<call, format, pulls, dirs, overflow_checks, src, matched_args>>
    /\ UNCHANGED printfVars

\* One conversion: parsed, run against the source, its destination pulled and
\* written, `matched_args += 1`; or the panic.
ScanDirective ==
    /\ InScanLoop
    /\ Read(format, format_char_idx) = PCT
    /\ \E checks \in Builds :
         LET o == ScanConversion(format, src, src_ptr, format_char_idx, checks)
         IN  /\ pc' = IF o.status = "ok" THEN "loop" ELSE "abort"
             /\ status' = IF o.status = "ok" THEN "" ELSE o.status
             /\ matched_args' = IF o.status = "ok" THEN matched_args + 1 ELSE matched_args
             /\ src_ptr' = o.ptr
             /\ format_char_idx' = o.idx
             /\ hi_format' = Max(hi_format, o.hi_format)
             /\ hi_src' = Max(hi_src, o.hi_src)
             /\ overflow_checks' = IF o.wrapped THEN checks ELSE overflow_checks
             /\ pulls' = pulls \o [k \in 1..Len(o.pulled) |->
                                     [at |-> format_char_idx, role |-> "dest",
                                      type |-> o.pulled[k]]]
             /\ dirs' = Append(dirs,
                    [at |-> format_char_idx, specifier |-> o.specifier,
                     length_modifier |-> o.length_modifier, status |-> o.status,
                     src_at |-> src_ptr, src_end |-> o.ptr, val |-> o.val,
                     bytes |-> o.bytes, pulls_before |-> Len(pulls),
                     pulled |-> Len(o.pulled), matched_before |-> matched_args])
    /\ UNCHANGED <<call, format, src, ret>>
    /\ UNCHANGED printfVars

NextScanf ==
    \/ ScanTerminator
    \/ ScanLiteral
    \/ ScanDirective

SpecScanf == InitScanf /\ [][NextScanf]_vars

(***************************************************************************)
(* Properties of printf_inner and its sinks, checked under SpecPrintf.     *)
(***************************************************************************)
PrintfDirs == IF call = "printf" THEN DOMAIN dirs ELSE {}

\* The arguments directive e pulled, in order.
PullsOf(e) == SubSeq(pulls, e.pulls_before + 1, e.pulls_before + e.pulled)

\* C1: for every result res and declared size n, vsnprintf (and snprintf)
\* returns, having written min(len(res), n - 1) bytes of res and a NUL and no
\* byte at index n or above, and returns len(res).
C1_BoundedWrite ==
    (call = "printf" /\ n # -1) =>
        /\ pc = "done"
        /\ dest = SubSeq(res, 1, Min(Len(res), n - 1)) \o <<NUL>>
        /\ Len(dest) <= n
        /\ ret = Len(res)

\* C1, for a declared size of at least 1 (not the claim: the part of it the
\* code keeps).
C1_PositiveSize ==
    (call = "printf" /\ n >= 1) =>
        /\ pc = "done"
        /\ dest = SubSeq(res, 1, Min(Len(res), n - 1)) \o <<NUL>>
        /\ Len(dest) <= n
        /\ ret = Len(res)

\* The field the claim gives a d, i or u directive: the digits of the size of
\* the value, zero-extended to the precision, the sign before them, and the
\* whole left-padded to the width.
ClaimedDigits(e) ==
    IF e.specifier = LOWER_U THEN U32Digits(e.value) ELSE MagDigits(e.value)
ClaimedNumericText(e) ==
    LET digits == ClaimedDigits(e)
        zeros == IF e.precision # None /\ e.precision > 0
                 THEN Repeat(ZERO, e.precision - Len(digits)) ELSE <<>>
        sign == IF e.specifier # LOWER_U /\ e.value < 0 THEN <<MINUS>> ELSE <<>>
    IN  sign \o zeros \o digits
ClaimedPadByte(e) == IF e.pad_char = ZERO /\ e.precision = None THEN ZERO ELSE SPACE
ClaimedIntField(e) ==
    LET text == ClaimedNumericText(e)
    IN  Repeat(ClaimedPadByte(e), e.pad_width - Len(text)) \o text

IsIntDirective(e) == e.specifier \in {LOWER_D, LOWER_I, LOWER_U} /\ e.status = "ok"

\* C4: a d, i or u directive appends the value's digits zero-extended to the
\* precision (negative values included), left-padded to the width with '0'
\* when the zero flag stands without a precision and with spaces otherwise.
C4_IntegerField ==
    \A k \in PrintfDirs : IsIntDirective(dirs[k]) => dirs[k].out = ClaimedIntField(dirs[k])

\* C4 without a precision on a negative value (not the claim: the part of it
\* the code keeps).
C4_ExceptNegativeWithPrecision ==
    \A k \in PrintfDirs :
        LET e == dirs[k]
        IN  (IsIntDirective(e) /\ ~(e.precision # None /\ e.precision > 0
                                     /\ e.specifier # LOWER_U /\ e.value < 0))
                => e.out = ClaimedIntField(e)

\* C5: every directive whose specifier is '%' appends exactly one '%' and
\* pulls no argument, whatever stands between the two '%' bytes.
C5_PercentPullsNothing ==
    \A k \in PrintfDirs :
        dirs[k].specifier = PCT =>
            /\ dirs[k].status = "ok"
            /\ dirs[k].out = <<PCT>>
            /\ dirs[k].pulled = 0

\* C5 as amended: with a literal or absent width a '%' directive appends one
\* '%' and pulls nothing; with width `*` it pulls exactly the width, one i32,
\* and then appends one '%' if that width is not negative and aborts,
\* appending nothing, if it is.
C5_PercentPullsOnlyStarWidth ==
    \A k \in PrintfDirs :
        LET e == dirs[k]
        IN  e.specifier = PCT =>
              /\ ~e.star => (e.status = "ok" /\ e.out = <<PCT>> /\ e.pulled = 0)
              /\ e.star =>
                   /\ e.pulled = 1
                   /\ PullsOf(e) = <<[at |-> e.at, role |-> "width", type |-> "i32"]>>
                   /\ e.pad_width >= 0 => (e.status = "ok" /\ e.out = <<PCT>>)
                   /\ e.pad_width < 0 => (e.status # "ok" /\ e.out = <<>>)

\* C5's case: "%0.3l%" rendered as one '%' with nothing pulled.
C5_Witness ==
    /\ call = "printf"
    /\ dirs # <<>>
    /\ dirs[1].specifier = PCT
    /\ dirs[1].pad_char = ZERO
    /\ dirs[1].precision = 3
    /\ dirs[1].length_modifier = LOWER_L
    /\ dirs[1].status = "ok"
    /\ pulls = <<>>
    /\ pc = "done"

\* The directives the specifier table does not hold, as the claim lists them.
ClaimedOutsideTable(e, ns_log) ==
    \/ e.specifier \notin {PCT, LOWER_C, UPPER_C, LOWER_S, LOWER_D, LOWER_I, LOWER_U,
                           LOWER_F, AT, LOWER_X, UPPER_X, LOWER_P}
    \/ e.specifier = AT /\ ~ns_log
    \/ /\ e.precision # None
       /\ e.specifier \notin {PCT, LOWER_D, LOWER_I, LOWER_U, LOWER_X, UPPER_X, LOWER_F}
    \/ /\ e.length_modifier # None
       /\ e.specifier \in {LOWER_C, UPPER_C, LOWER_S, LOWER_F, AT, LOWER_P}
    \/ /\ e.pad_char = ZERO \/ e.pad_width # 0
       /\ e.specifier \in {LOWER_C, UPPER_C, LOWER_S, LOWER_X, UPPER_X}

\* C6: a directive outside the supported table is a fatal abort, never
\* rendered with the unsupported part dropped.
C6_OutsideTableAborts ==
    \A k \in PrintfDirs :
        ClaimedOutsideTable(dirs[k], NS_LOG) => (dirs[k].status # "ok" /\ pc = "abort")

\* C6 but for padding on x and X (not the claim: the part of it the code keeps).
C6_ExceptHexPadding ==
    \A k \in PrintfDirs :
        (ClaimedOutsideTable(dirs[k], NS_LOG) /\ dirs[k].specifier \notin {LOWER_X, UPPER_X})
            => (dirs[k].status # "ok" /\ pc = "abort")

\* C8: printf_inner never asks for a format byte past the terminator, each
\* iteration moves the index on (so the loop ends, the index being bounded),
\* a directive the terminator cuts short is a fatal abort, and no rendered
\* directive has the terminator as its specifier.
C8_IndexInvariant ==
    call = "printf" =>
        /\ hi_format <= TermIdx(format)
        /\ format_char_idx <= TermIdx(format) + 1
        /\ \A k \in DOMAIN dirs :
              /\ dirs[k].specifier = NUL => (dirs[k].status # "ok" /\ pc = "abort")
              /\ dirs[k].status = "ok" => dirs[k].specifier # NUL
        /\ pc \in {"returned", "done"} => format_char_idx = TermIdx(format) + 1
C8_IndexAdvances == InPrintfLoop => format_char_idx' > format_char_idx
C8_NeverPastTerminator == [](C8_IndexInvariant) /\ [][C8_IndexAdvances]_vars

\* C8's case: a format the terminator cuts after precision digits, aborted
\* having read the terminator and nothing past it.
C8_Witness ==
    /\ call = "printf"
    /\ pc = "abort"
    /\ dirs # <<>>
    /\ dirs[Len(dirs)].specifier = NUL
    /\ dirs[Len(dirs)].precision = 3
    /\ hi_format = TermIdx(format)

\* The type the table gives each specifier's argument.
ClaimedType(specifier) ==
    CASE specifier = LOWER_C -> "u8"
      [] specifier = UPPER_C -> "unichar"
      [] specifier = LOWER_S -> "ptr"
      [] specifier \in {LOWER_D, LOWER_I} -> "i32"
      [] specifier \in {LOWER_U, LOWER_X, UPPER_X} -> "u32"
      [] specifier = LOWER_F -> "f64"
      [] specifier = AT -> "id"
      [] specifier = LOWER_P -> "void_ptr"
      [] OTHER -> "none"

StarPulls(e) == IF e.star THEN 1 ELSE 0

\* C9: arguments are pulled in format order; a `*` width is one i32 pulled
\* before the directive's value, any other width pulls nothing; a rendered
\* c, C, s, d, i, u, f, @, x, X or p pulls exactly one value of its type; a
\* negative `*` width aborts with no value pulled after it.
C9_PullOrder ==
    call = "printf" =>
        /\ Len(pulls) = IF dirs = <<>> THEN 0
                        ELSE dirs[Len(dirs)].pulls_before + dirs[Len(dirs)].pulled
        /\ \A k \in DOMAIN dirs :
             LET e == dirs[k]
                 mine == PullsOf(e)
             IN  /\ e.pulls_before = IF k = 1 THEN 0
                                     ELSE dirs[k - 1].pulls_before + dirs[k - 1].pulled
                 /\ k > 1 => dirs[k - 1].at < e.at
                 /\ \A j \in 1..Len(mine) :
                       /\ mine[j].at = e.at
                       /\ mine[j].role = IF e.star /\ j = 1 THEN "width" ELSE "value"
                 /\ e.star => (e.pulled >= 1 /\ mine[1].type = "i32")
                 /\ e.pulled <= StarPulls(e) + 1
                 /\ (e.status = "ok" /\ ClaimedType(e.specifier) # "none") =>
                       /\ e.pulled = StarPulls(e) + 1
                       /\ mine[e.pulled].type = ClaimedType(e.specifier)
                 /\ (e.status = "ok" /\ e.specifier = PCT) => e.pulled = StarPulls(e)
                 /\ (e.star /\ e.pad_width < 0) => (e.status # "ok" /\ e.pulled = 1)

\* C9's case: "%*d%s", the width, the integer and the string pulled in turn.
C9_Witness ==
    /\ call = "printf"
    /\ Len(dirs) = 2
    /\ dirs[1].star /\ dirs[1].specifier = LOWER_D /\ dirs[1].status = "ok"
    /\ dirs[2].specifier = LOWER_S /\ dirs[2].status = "ok"
    /\ [j \in 1..Len(pulls) |-> pulls[j].type] = <<"i32", "i32", "ptr">>
    /\ [j \in 1..Len(pulls) |-> pulls[j].role] = <<"width", "value", "value">>

(***************************************************************************)
(* Properties of sscanf, checked under SpecScanf.                          *)
(***************************************************************************)
ScanDirs == IF call = "sscanf" THEN DOMAIN dirs ELSE {}

\* matched_args after conversion k.
MatchedAfter(k) == IF k = Len(dirs) THEN matched_args ELSE dirs[k + 1].matched_before

\* The conversions completed so far.
Completed == Cardinality({k \in DOMAIN dirs : dirs[k].status = "ok"})

\* The next format byte is a literal and the source byte at the cursor, a byte
\* of guest memory, differs from it.
LiteralMismatch ==
    /\ InScanLoop
    /\ Read(format, format_char_idx) \notin {NUL, PCT, Unmapped}
    /\ Read(src, src_ptr) # Unmapped
    /\ Read(src, src_ptr) # Read(format, format_char_idx)

\* C2: on a literal mismatch sscanf halts at once and returns the number of
\* conversions completed less one (-1 before any conversion), pulling no
\* further argument and writing no further destination.
C2_Step ==
    LiteralMismatch =>
        /\ pc' = "done"
        /\ ret' = Completed - 1
        /\ UNCHANGED <<pulls, dirs, src_ptr, matched_args>>
        /\ ~(ENABLED NextScanf)'
C2_MismatchHalts == [][C2_Step]_vars

\* C2's case: a first literal that differs, before a directive the format
\* goes on with, and -1 returned.
C2_Witness ==
    /\ call = "sscanf"
    /\ status = "mismatch"
    /\ ret = -1
    /\ format_char_idx = 1
    /\ Read(format, 1) = PCT
    /\ Read(format, 2) = LOWER_D
    /\ pulls = <<>>

\* The directive at index at is a closed `%[^S]`, and S.
ClassEnd(fmt, at) ==
    CHOOSE j \in (at + 3)..TermIdx(fmt) :
        /\ Read(fmt, j) \in {RBRACKET, NUL}
        /\ \A i \in (at + 3)..(j - 1) : Read(fmt, i) \notin {RBRACKET, NUL}
IsClosedClass(fmt, at) ==
    /\ at + 3 <= TermIdx(fmt)
    /\ Read(fmt, at + 1) = LBRACKET
    /\ Read(fmt, at + 2) = CARET
    /\ Read(fmt, ClassEnd(fmt, at)) = RBRACKET
ClassSet(fmt, at) == {Read(fmt, i) : i \in (at + 3)..(ClassEnd(fmt, at) - 1)}

\* The source from offset `from` holds a byte of S before its terminator, and
\* the offset of the first one.
HasExcluded(mem, from, S) ==
    \E q \in from..(TermIdx(mem) - 1) : Read(mem, q) \in S
FirstExcluded(mem, from, S) ==
    CHOOSE q \in from..(TermIdx(mem) - 1) :
        /\ Read(mem, q) \in S
        /\ \A i \in from..(q - 1) : Read(mem, i) \notin S

\* Conversion k is a closed `%[^S]` met with the rest of the source being
\* some P and then a byte of S.
IsClassCase(k) ==
    /\ IsClosedClass(format, dirs[k].at)
    /\ HasExcluded(src, dirs[k].src_at, ClassSet(format, dirs[k].at))

\* C3: `%[^S]` on a source that goes on with P and then a byte of S stores P
\* and one NUL, counts one conversion and leaves the cursor on that byte.
C3_ClassCopiesPrefix ==
    \A k \in ScanDirs :
        IsClassCase(k) =>
            LET e == dirs[k]
                q == FirstExcluded(src, e.src_at, ClassSet(format, e.at))
            IN  /\ e.status = "ok"
                /\ e.bytes = SubSeq(src, e.src_at + 1, q) \o <<NUL>>
                /\ e.src_end = q
                /\ MatchedAfter(k) = e.matched_before + 1
                /\ e.pulled = 1

\* C3's case: "%[^ ] " on a source "a4.. ..": the prefix stored, and the
\* literal space after the directive met the space the copy stopped at.
C3_Witness ==
    /\ call = "sscanf"
    /\ Len(dirs) = 1
    /\ IsClassCase(1)
    /\ Len(dirs[1].bytes) >= 3
    /\ Read(src, dirs[1].src_end) = SPACE
    /\ src_ptr = dirs[1].src_end + 1
    /\ status = "terminator"
    /\ ret = 1

\* The maximal run of decimal digits in the source from offset `from`.
RunEnd(mem, from) ==
    CHOOSE q \in from..Max(from, Len(mem)) :
        /\ ~IsDigit(Read(mem, q))
        /\ \A i \in from..(q - 1) : IsDigit(Read(mem, i))
DigitsFrom(mem, from) == SubSeq(mem, from + 1, RunEnd(mem, from))

\* A digit run without its leading zeros: the digits of its decimal value.
RECURSIVE Normal(_)
Normal(run) ==
    IF run = <<>> THEN <<ZERO>>
    ELSE IF Head(run) = ZERO /\ Len(run) > 1 THEN Normal(Tail(run))
    ELSE run

\* x <= y for two equally long digit strings.
RECURSIVE DigitsLeq(_, _)
DigitsLeq(x, y) ==
    IF x = <<>> THEN TRUE
    ELSE IF Head(x) # Head(y) THEN Head(x) < Head(y)
    ELSE DigitsLeq(Tail(x), Tail(y))

\* The decimal value of the run fits a signed integer of `width` bits.
Fits(run, width) ==
    LET top == DecDigits(IF width = 16 THEN 32767 ELSE 2147483647)
    IN  \/ Len(Normal(run)) < Len(top)
        \/ Len(Normal(run)) = Len(top) /\ DigitsLeq(Normal(run), top)

\* val is the decimal value of the run.
IsValueOf(val, run) == val >= 0 /\ DecDigits(val) = Normal(run)

\* The decimal value of the run modulo 2^width, as the signed integer with
\* those bits; the value is kept as two 16-bit halves.
RECURSIVE HalvesOf(_, _, _)
HalvesOf(run, high, low) ==
    IF run = <<>> THEN <<high, low>>
    ELSE LET l == low * 10 + (Head(run) - ZERO)
         IN  HalvesOf(Tail(run), (high * 10 + (l \div 65536)) % 65536, l % 65536)
Wrapped(run, width) ==
    LET h == HalvesOf(run, 0, 0)
        top == IF width = 16 THEN h[2] ELSE h[1]
        signed == IF top >= 32768 THEN top - 65536 ELSE top
    IN  IF width = 16 THEN signed ELSE signed * 65536 + h[2]

IsIntConversion(e) == e.specifier \in {LOWER_D, LOWER_I}
WidthOf(e) == IF e.length_modifier = LOWER_H THEN 16 ELSE 32

\* The format holds literal bytes and `%d` and `%hd` directives only.
IsDecimalFormat(fmt) ==
    \A i \in 0..(TermIdx(fmt) - 1) :
        Read(fmt, i) = PCT =>
            \/ Read(fmt, i + 1) = LOWER_D
            \/ Read(fmt, i + 1) = LOWER_H /\ Read(fmt, i + 2) = LOWER_D
Directives(fmt) == Cardinality({i \in 0..(TermIdx(fmt) - 1) : Read(fmt, i) = PCT})

\* C7: with every literal matching, sscanf halts at the format terminator
\* and returns matched_count, the number of directives in the format; each
\* `%d` takes the maximal run of digits at the cursor and stores its decimal
\* value in the next destination (i32, or i16 with `h`), in format order.
C7_DecimalValueStored ==
    (call = "sscanf" /\ pc # "loop" /\ status # "mismatch" /\ IsDecimalFormat(format)) =>
        /\ status = "terminator"
        /\ ret = matched_args
        /\ ret = Directives(format)
        /\ \A k \in DOMAIN dirs :
              /\ dirs[k].src_end = RunEnd(src, dirs[k].src_at)
              /\ IsValueOf(dirs[k].val, DigitsFrom(src, dirs[k].src_at))
              /\ dirs[k].pulls_before = k - 1

\* What C7 says holds of every digit run whose value fits the destination's
\* type: a call that halts at the format terminator returns matched_count,
\* the number of conversions it made, and each `%d` or `%i` took the maximal
\* run of digits and stored its decimal value in the next destination (i32,
\* or i16 with `h`).  A run that does not fit aborts the call in a build with
\* overflow checks and stores the value wrapped to the type in one without.
C7_DecimalValueIfItFits ==
    call = "sscanf" =>
        /\ status = "terminator" =>
              /\ pc = "done"
              /\ ret = matched_args
              /\ ret = Len(dirs)
              /\ Len(pulls) = Len(dirs)
        /\ \A k \in DOMAIN dirs :
             LET e == dirs[k]
                 run == DigitsFrom(src, e.src_at)
             IN  /\ (IsIntConversion(e) /\ e.status = "ok") =>
                       /\ e.src_end = RunEnd(src, e.src_at)
                       /\ e.pulls_before = k - 1 /\ e.pulled = 1
                       /\ pulls[k].type = IF WidthOf(e) = 16 THEN "ptr_i16" ELSE "ptr_i32"
                       /\ Fits(run, WidthOf(e)) => IsValueOf(e.val, run)
                       /\ ~Fits(run, WidthOf(e)) =>
                             (overflow_checks = "off" /\ e.val = Wrapped(run, WidthOf(e)))
                 /\ e.status = "overflow" =>
                       /\ IsIntConversion(e)
                       /\ overflow_checks = "on"
                       /\ ~Fits(run, WidthOf(e))
                       /\ e.pulled = 0

\* The case of C7's example: "a%d" on "a4444" stores 4444 and returns 1.
C7_Witness ==
    /\ call = "sscanf"
    /\ status = "terminator"
    /\ ret = 1
    /\ Read(format, 0) = 97
    /\ Len(dirs) = 1
    /\ dirs[1].specifier = LOWER_D
    /\ dirs[1].length_modifier = None
    /\ dirs[1].src_at = 1
    /\ dirs[1].val = 4444

\* C10: sscanf reads no source byte past the source's terminator and no
\* format byte past the format's; a `%[^S]` stops at the end of the source
\* and writes at most the rest of the source and one byte more.
C10_StaysInsideStrings ==
    call = "sscanf" =>
        /\ hi_src <= TermIdx(src)
        /\ hi_format <= TermIdx(format)
        /\ \A k \in DOMAIN dirs :
              dirs[k].specifier = LBRACKET =>
                  Len(dirs[k].bytes) <= (TermIdx(src) - dirs[k].src_at) + 1

====
